---- MODULE Spec2Model ----
(***************************************************************************)
(* Model of the geometric core of scripts/qe/postprocess_epw.py:           *)
(*   _clip_polygon_halfplane, first_bz_polygon_2d_from_b1b2 and            *)
(*   kpoints_to_cart_2d, of the overlay part of its plot_lambda_fs, of     *)
(*   scripts/qe/link_ph_outputs.py, of the Fermi-energy handling of        *)
(*   scripts/qe/wannier_plot_check.py, of the input handling of            *)
(*   scripts/qe/plot_phonon_dispersion.py and of the spin handling of      *)
(*   scripts/qe/pdosPlot.py.  Each has its own specification over its own  *)
(*   variables; the variables of the others stay idle.                     *)
(*                                                                         *)
(* Numbers.  The program computes with IEEE doubles.  The model computes   *)
(* with exact rationals <<num, den>> (den > 0, lowest terms), i.e. it      *)
(* models every float operation by the real operation it rounds.  The one  *)
(* irrational operation, np.linalg.norm, is modelled by a square root      *)
(* rounded down to a multiple of 1/SqrtScale.  The tolerance eps is a      *)
(* power of ten, 10^-k, held by its exponent k, so that the default        *)
(* 1e-12 is compared exactly without leaving TLC's integer range.          *)
(***************************************************************************)
EXTENDS Integers, Sequences, FiniteSets, TLC

VARIABLES
    b1, b2, N,       \* arguments of first_bz_polygon_2d_from_b1b2
    Gs,              \* the list Gs of candidate vectors
    rest,            \* indices of Gs the clipping loop has not yet visited
    poly,            \* the local poly
    pc,              \* position in first_bz_polygon_2d_from_b1b2
    err,             \* which ValueError was raised, "none" if none
    cin, cn, cc, ceps,   \* arguments poly, n, c, eps of _clip_polygon_halfplane
    cout,            \* its return value
    cpc,             \* "idle" before a call, "done" after it
    ccalls,          \* number of calls made so far
    kxyz, kb, kmode, \* arguments kxyz, b, mode of kpoints_to_cart_2d
    kout,            \* its return value
    kerr,            \* which error it raised, "none" if none
    kpc,             \* "idle" before the call, "done" after it
    oxml,            \* plot_lambda_fs: does data-file-schema.xml exist
    oparse,          \* what reading the XML yields: a basis b or "ParseError"
    odata,           \* the columns data[:, 0:3] of the lambda table
    omode,           \* the module-level setting KPOINT_MODE
    obz, okxy,       \* the locals bz_poly and kxy
    oplot,           \* what plot_scatter_2d was given, None before it
    opc,             \* position in plot_lambda_fs
    fs,              \* link_ph_outputs: the file system, path -> entry
    fs0,             \* the file system when main started
    hits,            \* main's dict hits, iq -> (ipert, path)
    root,            \* index in roots of the root being scanned
    scanned,         \* entries of that root the rglob loop has visited
    todo,            \* safe_symlink calls of the final loop still to make
    rc,              \* main's return value, -1 before it returns
    mpc,             \* position in main
    wargs,           \* wannier_plot_check: the parsed command line
    wfiles,          \* the files of the working directory, name -> lines
    wef, wsrc,       \* the pair returned by resolve_ef
    win,             \* the energies parsed from the two band files
    wout,            \* the energies plot_bands draws, None before it
    wpc,             \* position in wannier_plot_check's main
    phargs,          \* plot_phonon_dispersion: the arguments --freq/--dos/--qpath
    phfiles,         \* the files of the working directory, name -> state
    phpaths,         \* what resolve_inputs returned, None before it
    phdisp,          \* the number of q-points loaded, None before loading
    phlabels,        \* main's pair (labels, tick_idx)
    phplot,          \* which plot function drew the figure, and with what
    pherr,           \* the exception that ended main, "none" if none
    phpc,            \* position in plot_phonon_dispersion's main
    dfiles,          \* pdosPlot: the files of the working directory
    dfermi,             \* the Fermi energy found in *.out, None if none
    dentries,        \* main's sorted list entries
    dspin,           \* main's flag has_spin
    dshift,          \* main's flag apply_fermi_shift
    dtodo,           \* entries the two plotting loops have still to visit
    dcurves,         \* the curves given to plt.plot, in order
    dpc              \* position in pdosPlot's main

bzvars == <<b1, b2, N, Gs, rest, poly, pc, err>>
clipvars == <<cin, cn, cc, ceps, cout, cpc, ccalls>>
mapvars == <<kxyz, kb, kmode, kout, kerr, kpc>>
overlayvars == <<oxml, oparse, odata, omode, obz, okxy, oplot, opc>>
linkvars == <<fs, fs0, hits, root, scanned, todo, rc, mpc>>
bandvars == <<wargs, wfiles, wef, wsrc, win, wout, wpc>>
phononvars == <<phargs, phfiles, phpaths, phdisp, phlabels, phplot, pherr, phpc>>
pdosvars == <<dfiles, dfermi, dentries, dspin, dshift, dtodo, dcurves, dpc>>
plotvars == <<phononvars, pdosvars>>
scriptvars == <<overlayvars, linkvars, bandvars, plotvars>>

vars == <<b1, b2, N, Gs, rest, poly, pc, err,
          cin, cn, cc, ceps, cout, cpc, ccalls,
          kxyz, kb, kmode, kout, kerr, kpc,
          oxml, oparse, odata, omode, obz, okxy, oplot, opc,
          fs, fs0, hits, root, scanned, todo, rc, mpc,
          wargs, wfiles, wef, wsrc, win, wout, wpc,
          phargs, phfiles, phpaths, phdisp, phlabels, phplot, pherr, phpc,
          dfiles, dfermi, dentries, dspin, dshift, dtodo, dcurves, dpc>>

(* Bounds of the model                                                     *)

MaxCoord == 1        \* basis components are integers in -MaxCoord..MaxCoord
MaxN == 2            \* N ranges over 0..MaxN
SqrtScale == 4       \* resolution of the modelled square root

(* Program constants                                                       *)

EpsExp == 12         \* eps: float = 1e-12, held as the exponent 12

----------------------------------------------------------------------------
(* Exact rational arithmetic standing for the float operations             *)

Abs(x) == IF x < 0 THEN -x ELSE x

RECURSIVE GCD(_, _)
GCD(a, b) == IF b = 0 THEN a ELSE GCD(b, a % b)

Norm(n, d) ==
    LET s == IF d < 0 THEN -1 ELSE 1
        g == GCD(Abs(n), Abs(d))
    IN  <<(s * n) \div g, (s * d) \div g>>

Q(n) == <<n, 1>>
Zero == <<0, 1>>
One == <<1, 1>>
Half == <<1, 2>>

RAdd(x, y) ==
    LET g == GCD(x[2], y[2])
    IN  Norm(x[1] * (y[2] \div g) + y[1] * (x[2] \div g), (x[2] \div g) * y[2])
RSub(x, y) ==
    LET g == GCD(x[2], y[2])
    IN  Norm(x[1] * (y[2] \div g) - y[1] * (x[2] \div g), (x[2] \div g) * y[2])
RMul(x, y) ==
    LET g1 == GCD(Abs(x[1]), y[2])
        g2 == GCD(Abs(y[1]), x[2])
    IN  <<(x[1] \div g1) * (y[1] \div g2), (x[2] \div g2) * (y[2] \div g1)>>
RDiv(x, y) == RMul(x, Norm(y[2], y[1]))
RNeg(x) == <<-x[1], x[2]>>
RAbs(x) == <<Abs(x[1]), x[2]>>
RLe(x, y) ==
    LET g == GCD(x[2], y[2])
    IN  x[1] * (y[2] \div g) <= y[1] * (x[2] \div g)
RLt(x, y) ==
    LET g == GCD(x[2], y[2])
    IN  x[1] * (y[2] \div g) < y[1] * (x[2] \div g)
RMax(x, y) == IF RLe(x, y) THEN y ELSE x
RMin(x, y) == IF RLe(x, y) THEN x ELSE y

(* vectors of R^2 are pairs of rationals *)
V(x, y) == <<Q(x), Q(y)>>
VAdd(p, q) == <<RAdd(p[1], q[1]), RAdd(p[2], q[2])>>
VSub(p, q) == <<RSub(p[1], q[1]), RSub(p[2], q[2])>>
VScale(t, p) == <<RMul(t, p[1]), RMul(t, p[2])>>
Dot(p, q) == RAdd(RMul(p[1], q[1]), RMul(p[2], q[2]))

(* p * 10^k <= q for naturals p, q, without forming 10^k *)
RECURSIVE ScaledLe(_, _, _)
ScaledLe(p, q, k) ==
    IF k = 0 THEN p <= q
    ELSE IF p = 0 THEN TRUE
    ELSE ScaledLe(p, q \div 10, k - 1)

(* x <= 10^-k  and  x < 10^-k  for a rational x *)
LeEps(x, k) == x[1] <= 0 \/ ScaledLe(x[1], x[2], k)
LtEps(x, k) == x[1] <= 0 \/ ScaledLe(x[1], x[2] - 1, k)

(* np.linalg.norm(G), rounded down to a multiple of 1/SqrtScale *)
VNorm(G) ==
    LET gg == Dot(G, G)
        bound == ((Abs(G[1][1]) \div G[1][2]) + (Abs(G[2][1]) \div G[2][2]) + 2) * SqrtScale
        x == (gg[1] * SqrtScale * SqrtScale) \div gg[2]
        r == CHOOSE s \in 0..bound : s * s <= x /\ x < (s + 1) * (s + 1)
    IN  Norm(r, SqrtScale)

----------------------------------------------------------------------------
(* _clip_polygon_halfplane                                                 *)

(* inside(p): (n @ p) <= (c + eps) *)
Inside(p, n, c, eps) == LeEps(RSub(Dot(n, p), c), eps)

(* intersect with the sign slip p1 - t * d and no clamp *)
IntersectSignSlip(p1, p2, n, c, eps) ==
    LET d == VSub(p2, p1)
        denom == Dot(n, d)
    IN  IF LtEps(RAbs(denom), eps) THEN p1
        ELSE VSub(p1, VScale(RDiv(RSub(c, Dot(n, p1)), denom), d))

(* intersect(p1, p2) *)
Intersect(p1, p2, n, c, eps) ==
    LET d == VSub(p2, p1)
        denom == Dot(n, d)
    IN  IF LtEps(RAbs(denom), eps) THEN p1
        ELSE LET t0 == RDiv(RSub(c, Dot(n, p1)), denom)
                 t == RMax(Zero, RMin(One, t0))
             IN  VAdd(p1, VScale(t, d))

(* what one iteration of "for cur in poly" appends to out; prev is the     *)
(* vertex before cur, the last vertex for the first iteration              *)
Emit(pl, i, n, c, eps) ==
    LET cur == pl[i]
        prev == IF i = 1 THEN pl[Len(pl)] ELSE pl[i - 1]
        cur_in == Inside(cur, n, c, eps)
        prev_in == Inside(prev, n, c, eps)
    IN  IF cur_in
        THEN (IF ~prev_in THEN <<Intersect(prev, cur, n, c, eps)>> ELSE <<>>) \o <<cur>>
        ELSE (IF prev_in THEN <<Intersect(prev, cur, n, c, eps)>> ELSE <<>>)

RECURSIVE ClipLoop(_, _, _, _, _)
ClipLoop(pl, i, n, c, eps) ==
    IF i > Len(pl) THEN <<>>
    ELSE Emit(pl, i, n, c, eps) \o ClipLoop(pl, i + 1, n, c, eps)

ClipPolygonHalfplane(pl, n, c, eps) ==
    IF Len(pl) = 0 THEN pl ELSE ClipLoop(pl, 1, n, c, eps)

----------------------------------------------------------------------------
(* first_bz_polygon_2d_from_b1b2                                           *)

(* G = m * b1 + n * b2 *)
Lattice(m, n, u, v) == VAdd(VScale(Q(m), u), VScale(Q(n), v))

(* the pairs (m, n) in the order of the two nested range(-N, N + 1) loops, *)
(* (0, 0) skipped: the j-th pair of the full grid, counted from 0, is      *)
(* (j \div (2K+1) - K, j % (2K+1) - K), and (0, 0) is the centre one       *)
Pairs(K) ==
    LET w == 2 * K + 1
        centre == K * w + K
    IN  [i \in 1..(w * w - 1) |->
            LET j == IF i - 1 < centre THEN i - 1 ELSE i
            IN  <<(j \div w) - K, (j % w) - K>>]

(* the candidate list without the norm(G) > 0 filter *)
KeepAll(ps, u, v) == [i \in 1..Len(ps) |-> Lattice(ps[i][1], ps[i][2], u, v)]

(* if np.linalg.norm(G) > 0: Gs.append(G) *)
NormPositive(G) == RLt(Zero, VNorm(G))

KeepNonZero(ps, u, v) == SelectSeq(KeepAll(ps, u, v), NormPositive)

Candidates(u, v, K) == KeepNonZero(Pairs(K), u, v)

(* max(np.linalg.norm(g) for g in Gs) *)
MaxNorm(gs) ==
    LET norms == {VNorm(gs[i]) : i \in 1..Len(gs)}
    IN  CHOOSE x \in norms : \A y \in norms : RLe(y, x)

BoundingR(gs) == RMul(<<5, 2>>, MaxNorm(gs))

(* the bounding square listed clockwise *)
BoundingSquareCW(R) ==
    << <<RNeg(R), R>>, <<R, R>>, <<R, RNeg(R)>>, <<RNeg(R), RNeg(R)>> >>

BoundingSquare(R) ==
    << <<RNeg(R), RNeg(R)>>, <<R, RNeg(R)>>, <<R, R>>, <<RNeg(R), R>> >>

(* the offset without the factor 0.5 *)
HalfPlaneOffsetNoHalf(G) == Dot(G, G)

HalfPlaneOffset(G) == RMul(Half, Dot(G, G))

ClipByG(pl, G) == ClipPolygonHalfplane(pl, G, HalfPlaneOffset(G), EpsExp)

BasisVectors == {V(x, y) : x \in -MaxCoord..MaxCoord, y \in -MaxCoord..MaxCoord}

(* no call of first_bz_polygon_2d_from_b1b2 under way *)
(* Python's None; a value that can be None is compared with it, so the     *)
(* plot records are held in a sequence of length one                       *)
None == <<>>

NoOverlay ==
    /\ oxml = FALSE /\ oparse = "none" /\ odata = <<>> /\ omode = "none"
    /\ obz = None /\ okxy = None /\ oplot = None /\ opc = "none"

NoLink ==
    /\ fs = <<>> /\ fs0 = <<>> /\ hits = <<>> /\ root = 0
    /\ scanned = {} /\ todo = <<>> /\ rc = -1 /\ mpc = "none"

NoBands ==
    /\ wargs = <<>> /\ wfiles = <<>> /\ wef = None /\ wsrc = "none"
    /\ win = <<>> /\ wout = None /\ wpc = "none"

NoPhonon ==
    /\ phargs = <<>> /\ phfiles = <<>> /\ phpaths = None /\ phdisp = None
    /\ phlabels = <<>> /\ phplot = None /\ pherr = "none" /\ phpc = "none"

NoPdos ==
    /\ dfiles = <<>> /\ dfermi = None /\ dentries = <<>> /\ dspin = FALSE
    /\ dshift = FALSE /\ dtodo = <<>> /\ dcurves = <<>> /\ dpc = "none"

NoPlots == NoPhonon /\ NoPdos

NoScripts == NoOverlay /\ NoLink /\ NoBands /\ NoPlots

NoBZ ==
    /\ b1 = V(0, 0) /\ b2 = V(0, 0) /\ N = 0
    /\ Gs = <<>> /\ rest = {} /\ poly = <<>>
    /\ pc = "none" /\ err = "none"

(* no call of _clip_polygon_halfplane under way *)
NoClip ==
    /\ cin = <<>> /\ cn = V(0, 0) /\ cc = Zero /\ ceps = EpsExp
    /\ cout = <<>> /\ cpc = "none" /\ ccalls = 0

(* no call of kpoints_to_cart_2d under way *)
NoMap ==
    /\ kxyz = <<>> /\ kb = <<>> /\ kmode = "auto"
    /\ kout = <<>> /\ kerr = "none" /\ kpc = "none"

InitBZ ==
    /\ b1 \in BasisVectors
    /\ b2 \in BasisVectors
    /\ N \in 0..MaxN
    /\ Gs = <<>>
    /\ rest = {}
    /\ poly = <<>>
    /\ pc = "start"
    /\ err = "none"

Init == InitBZ /\ NoClip /\ NoMap /\ NoScripts

(* lines 329-342: build Gs, raise if empty, else set up the bounding square *)
GenerateCandidates ==
    /\ pc = "start"
    /\ LET gs == Candidates(b1, b2, N)
       IN  IF gs = <<>>
           THEN /\ pc' = "raised"
                /\ err' = "NoNeighborG"
                /\ UNCHANGED <<Gs, rest, poly>>
           ELSE /\ Gs' = gs
                /\ rest' = 1..Len(gs)
                /\ poly' = BoundingSquare(BoundingR(gs))
                /\ pc' = "clip"
                /\ err' = err
    /\ UNCHANGED <<b1, b2, N, clipvars, mapvars, scriptvars>>

Min(S) == CHOOSE x \in S : \A y \in S : x <= y

(* the body of "for G in Gs", for the candidate of index i *)
ClipWith(i) ==
    /\ poly' = ClipByG(poly, Gs[i])
    /\ rest' = rest \ {i}
    /\ pc' = IF Len(poly') = 0 \/ rest' = {} THEN "final" ELSE "clip"
    /\ UNCHANGED <<b1, b2, N, Gs, err, clipvars, mapvars, scriptvars>>

(* lines 344-349: one iteration of the loop, in list order *)
ClipStep ==
    /\ pc = "clip"
    /\ rest # {}
    /\ ClipWith(Min(rest))

(* lines 351-354 *)
Finish ==
    /\ pc = "final"
    /\ IF Len(poly) = 0 \/ Len(poly) < 3
       THEN pc' = "raised" /\ err' = "DegeneratePolygon"
       ELSE pc' = "returned" /\ err' = err
    /\ UNCHANGED <<b1, b2, N, Gs, rest, poly, clipvars, mapvars, scriptvars>>

Next == GenerateCandidates \/ ClipStep \/ Finish

(* the loop of lines 344-349 run to its end over the list gs *)
RECURSIVE ClipAll(_, _)
ClipAll(pl, gs) ==
    IF gs = <<>> \/ Len(pl) = 0 THEN pl
    ELSE ClipAll(ClipByG(pl, Head(gs)), Tail(gs))

(* the value of poly at line 351 when the candidates are visited in list   *)
(* order                                                                   *)
FirstBZ(u, v, K) ==
    LET gs == Candidates(u, v, K)
    IN  ClipAll(BoundingSquare(BoundingR(gs)), gs)

(* The same function with the candidate list visited in an arbitrary       *)
(* order: the loop body is applied to any candidate not yet visited.       *)
PermShells == {1}

PermFirstVectors == {V(1, 0), V(1, 1)}

InitPerm ==
    /\ Init
    /\ b1 \in PermFirstVectors
    /\ N \in PermShells

ClipStepAnyOrder ==
    /\ pc = "clip"
    /\ \E i \in rest : ClipWith(i)

NextPerm == GenerateCandidates \/ ClipStepAnyOrder \/ Finish

SpecPerm == InitPerm /\ [][NextPerm]_vars

----------------------------------------------------------------------------
(* _clip_polygon_halfplane called on its own, possibly on its own result   *)
(* (as first_bz_polygon_2d_from_b1b2 does with poly = clip(poly, ...))     *)

ClipMaxCoord == 1    \* components of the normal are integers in -ClipMaxCoord..ClipMaxCoord
ClipMaxOffset == 2   \* the offset c is k/2 for k in -ClipMaxOffset..ClipMaxOffset
MaxClipCalls == 2    \* number of successive calls

ClipPolygons ==
    { <<>>,
      <<V(-2, -2), V(2, -2), V(2, 2), V(-2, 2)>>,
      <<V(0, 0), V(2, 0), V(0, 2)>> }

ClipNormals == {V(x, y) : x \in -ClipMaxCoord..ClipMaxCoord, y \in -ClipMaxCoord..ClipMaxCoord}

ClipOffsets == {Norm(k, 2) : k \in -ClipMaxOffset..ClipMaxOffset}

(* eps = 1, eps = 0.1 and the default eps = 1e-12 *)
ClipTolerances == {0, 1, EpsExp}

InitClip ==
    /\ cin \in ClipPolygons
    /\ cn = V(0, 0) /\ cc = Zero /\ ceps = EpsExp
    /\ cout = <<>>
    /\ cpc = "idle"
    /\ ccalls = 0
    /\ NoBZ /\ NoMap /\ NoScripts

(* a call that stores the clipped vertices in the caller's polygon *)
CallClipInPlace ==
    /\ cpc = "idle"
    /\ ccalls < MaxClipCalls
    /\ \E n \in ClipNormals, c \in ClipOffsets, e \in ClipTolerances :
           /\ cn' = n /\ cc' = c /\ ceps' = e
           /\ cout' = ClipPolygonHalfplane(cin, n, c, e)
           /\ cin' = ClipPolygonHalfplane(cin, n, c, e)
    /\ cpc' = "done"
    /\ ccalls' = ccalls + 1
    /\ UNCHANGED <<bzvars, mapvars, scriptvars>>

(* one call of _clip_polygon_halfplane(cin, n, c, eps) *)
CallClip ==
    /\ cpc = "idle"
    /\ ccalls < MaxClipCalls
    /\ \E n \in ClipNormals, c \in ClipOffsets, e \in ClipTolerances :
           /\ cn' = n /\ cc' = c /\ ceps' = e
           /\ cout' = ClipPolygonHalfplane(cin, n, c, e)
    /\ cpc' = "done"
    /\ ccalls' = ccalls + 1
    /\ UNCHANGED <<cin, bzvars, mapvars, scriptvars>>

(* the caller passes the result on as the next input polygon *)
FeedBack ==
    /\ cpc = "done"
    /\ ccalls < MaxClipCalls
    /\ cin' = cout
    /\ cpc' = "idle"
    /\ UNCHANGED <<cn, cc, ceps, cout, ccalls, bzvars, mapvars, scriptvars>>

NextClip == CallClip \/ FeedBack

SpecClip == InitClip /\ [][NextClip]_vars

Spec == Init /\ [][Next]_vars

----------------------------------------------------------------------------
(* kpoints_to_cart_2d                                                      *)
(* kxyz is the list of the rows of a 2-D array, b the list of the rows of  *)
(* the basis; an outcome is [err, out], out being the returned array.      *)

MaxKPoints == 2      \* the array kxyz has 1..MaxKPoints rows
MaxWidth == 3        \* and 2..MaxWidth columns

(* the 1.2 of the auto heuristic *)
AutoThreshold == <<6, 5>>

Width(a) == Len(a[1])

(* kxyz[:, :w] *)
FirstColumns(a, w) ==
    [i \in 1..Len(a) |-> [j \in 1..(IF Width(a) < w THEN Width(a) ELSE w) |-> a[i][j]]]

(* np.nanmax(np.abs(kxyz[:, :3])) *)
MaxAbs(a) ==
    LET vals == {RAbs(a[i][j]) : i \in 1..Len(a), j \in 1..3}
    IN  CHOOSE x \in vals : \A y \in vals : RLe(y, x)

RECURSIVE SumProducts(_, _, _, _)
SumProducts(row, m, col, j) ==
    IF j > Len(row) THEN Zero
    ELSE RAdd(RMul(row[j], m[j][col]), SumProducts(row, m, col, j + 1))

(* a @ m.T, the product with the basis vectors taken as columns *)
MatMulTransposed(a, m) ==
    [i \in 1..Len(a) |-> [col \in 1..Len(m) |->
        LET row == m[col]
        IN  RAdd(RAdd(RMul(a[i][1], row[1]), RMul(a[i][2], row[2])), RMul(a[i][3], row[3]))]]

(* a @ m for a of shape (n, 3) and m with 3 rows *)
MatMul(a, m) ==
    [i \in 1..Len(a) |-> [col \in 1..Width(m) |-> SumProducts(a[i], m, col, 1)]]

(* mode_use for mode = "auto" with the comparison m < 1.2 *)
AutoModeStrict(a) == IF RLt(MaxAbs(a), AutoThreshold) THEN "crystal" ELSE "cart"

(* mode_use for mode = "auto" *)
AutoMode(a) == IF RLe(MaxAbs(a), AutoThreshold) THEN "crystal" ELSE "cart"

Raise(e) == [err |-> e, out |-> <<>>]
Return(a) == [err |-> "none", out |-> a]

(* kpoints_to_cart_2d with the bodies of the two mode branches exchanged    *)
KPointsToCart2DSwapped(a, m, mode) ==
    IF Width(a) < 3 THEN Raise("KxyzShape")
    ELSE LET mode_use == IF mode = "auto" THEN AutoMode(a) ELSE mode
         IN  IF mode_use = "crystal" THEN Return(FirstColumns(a, 2))
             ELSE IF mode_use = "cart"
                  THEN (IF Len(m) # 3 THEN Raise("MatmulShape")
                        ELSE Return(FirstColumns(MatMul(FirstColumns(a, 3), m), 2)))
                  ELSE Raise("UnknownMode")

KPointsToCart2D(a, m, mode) ==
    IF Width(a) < 3 THEN Raise("KxyzShape")
    ELSE LET mode_use == IF mode = "auto" THEN AutoMode(a) ELSE mode
         IN  IF mode_use = "cart" THEN Return(FirstColumns(a, 2))
             ELSE IF mode_use = "crystal"
                  THEN (IF Len(m) # 3 THEN Raise("MatmulShape")
                        ELSE Return(FirstColumns(MatMul(FirstColumns(a, 3), m), 2)))
                  ELSE Raise("UnknownMode")

KValues == {<<9, 10>>, <<6, 5>>, <<-5, 1>>}

KRows(w) == [1..w -> KValues]

(* arrays of n rows and w columns: any first row, the further rows each    *)
(* filled with one value.  (An array with no row, for which np.nanmax      *)
(* raises, and NaN components are left out.)                               *)
KArraysOfShape(n, w) ==
    {[i \in 1..n |-> IF i = 1 THEN r ELSE [j \in 1..w |-> t[i - 1]]] :
        r \in KRows(w), t \in [1..(n - 1) -> KValues]}

KArrays == UNION {KArraysOfShape(n, w) : n \in 1..MaxKPoints, w \in 2..MaxWidth}

Identity3 == <<<<One, Zero, Zero>>, <<Zero, One, Zero>>, <<Zero, Zero, One>>>>

Bases ==
    { Identity3,
      <<<<Q(2), Zero, Zero>>, <<Q(-1), Q(3), Zero>>, <<Half, Q(1), Q(4)>>>>,
      <<<<One, Zero, Zero>>, <<Zero, One, Zero>>>> }

Modes == {"auto", "crystal", "cart", "cartesian"}

InitMap ==
    /\ kxyz \in KArrays
    /\ kb \in Bases
    /\ kmode \in Modes
    /\ kout = <<>>
    /\ kerr = "none"
    /\ kpc = "idle"
    /\ NoBZ /\ NoClip /\ NoScripts

(* one call kpoints_to_cart_2d(kxyz, kb, kmode) *)
CallMap ==
    /\ kpc = "idle"
    /\ LET r == KPointsToCart2D(kxyz, kb, kmode)
       IN  kout' = r.out /\ kerr' = r.err
    /\ kpc' = "done"
    /\ UNCHANGED <<kxyz, kb, kmode, bzvars, clipvars, scriptvars>>

NextMap == CallMap

SpecMap == InitMap /\ [][NextMap]_vars

----------------------------------------------------------------------------
(* Geometry used to state the properties                                   *)

(* z-component of (q - p) x (r - p) *)
Cross(p, q, r) ==
    RSub(RMul(RSub(q[1], p[1]), RSub(r[2], p[2])),
         RMul(RSub(q[2], p[2]), RSub(r[1], p[1])))

Succ(pl, i) == IF i = Len(pl) THEN 1 ELSE i + 1

RECURSIVE ShoelaceFrom(_, _)
ShoelaceFrom(pl, i) ==
    IF i > Len(pl) THEN Zero
    ELSE LET p == pl[i]
             q == pl[Succ(pl, i)]
         IN  RAdd(RSub(RMul(p[1], q[2]), RMul(q[1], p[2])), ShoelaceFrom(pl, i + 1))

(* signed area, positive for a counter-clockwise polygon *)
Area(pl) == IF Len(pl) = 0 THEN Zero ELSE RMul(Half, ShoelaceFrom(pl, 1))

Rotate(s, k) == [i \in 1..Len(s) |-> s[((i + k - 1) % Len(s)) + 1]]

(* s and t are the same cyclic sequence *)
SameCycle(s, t) ==
    /\ Len(s) = Len(t)
    /\ (Len(s) = 0 \/ \E k \in 0..(Len(s) - 1) : Rotate(s, k) = t)

IsSquareLattice == b1 = V(1, 0) /\ b2 = V(0, 1) /\ N = 2

SquareCell ==
    << <<Half, RNeg(Half)>>, <<Half, Half>>, <<RNeg(Half), Half>>, <<RNeg(Half), RNeg(Half)>> >>

(* C1: for b1=(1,0), b2=(0,1), N=2 the returned vertex sequence is exactly *)
(* the four corners (+-1/2, +-1/2) in counter-clockwise order (from any    *)
(* starting corner).                                                       *)
C1_SquareIsFourCorners ==
    (IsSquareLattice /\ pc = "returned") => SameCycle(poly, SquareCell)

Origin == V(0, 0)

Parallel(u, v) == RSub(RMul(u[1], v[2]), RMul(u[2], v[1])) = Zero

(* every vertex lies on the left of (or on) every directed edge, and the   *)
(* signed area is positive: a convex region, traversed counter-clockwise   *)
ConvexCCW(pl) ==
    /\ \A i \in 1..Len(pl) : \A j \in 1..Len(pl) :
           RLe(Zero, Cross(pl[i], pl[Succ(pl, i)], pl[j]))
    /\ RLt(Zero, Area(pl))

(* C2: whenever first_bz_polygon_2d_from_b1b2 returns, the polygon has at  *)
(* least 3 vertices, is convex and is counter-clockwise; an empty polygon  *)
(* or one with fewer than 3 vertices is never returned.                    *)
C2_ReturnedIsConvexCCW ==
    pc = "returned" => (Len(poly) >= 3 /\ ConvexCCW(poly))

C2_Witness == pc = "returned" /\ ~Parallel(b1, b2) /\ Len(poly) >= 3

(* C4: no clipping step increases the area of poly, the loop starts from   *)
(* the bounding square of area (2R)^2, and the returned polygon has        *)
(* strictly positive area.                                                 *)
C4_AreaNeverIncreases ==
    /\ [][(pc = "clip" => RLe(Area(poly'), Area(poly)))
          /\ (pc = "start" /\ pc' = "clip" =>
                 Area(poly') = RMul(RMul(Q(2), BoundingR(Gs')), RMul(Q(2), BoundingR(Gs'))))]_vars
    /\ [](pc = "returned" => RLt(Zero, Area(poly)))

C4_Witness ==
    /\ pc = "returned"
    /\ RLt(Area(poly), Area(BoundingSquare(BoundingR(Gs))))

C7_NoCandidateRaises ==
    (pc # "start" /\ (N = 0 \/ (b1 = Origin /\ b2 = Origin))) =>
        (pc = "raised" /\ err = "NoNeighborG" /\ Gs = <<>> /\ poly = <<>>)

C7_Witness == pc = "raised" /\ err = "NoNeighborG" /\ N > 0 /\ b1 = Origin /\ b2 = Origin

(* C8: when b1 and b2 are linearly dependent the call raises and returns   *)
(* no polygon.                                                             *)
C8_ParallelRaises ==
    (Parallel(b1, b2) /\ pc \in {"returned", "raised"}) => pc = "raised"

(* C6: whatever the order in which the candidates are clipped, the         *)
(* returned polygon is the same cyclic vertex sequence as the one obtained *)
(* in generation order.                                                    *)
C6_OrderInsignificant ==
    pc = "returned" => SameCycle(poly, FirstBZ(b1, b2, N))

(* C3: clipping the result of a call again by the same half-plane, with    *)
(* the same tolerance, returns the same vertex sequence.                   *)
C3_ClipIdempotent ==
    cpc = "done" => ClipPolygonHalfplane(cout, cn, cc, ceps) = cout

(* every one of the first three components of every k-point is at most    *)
(* 1.2 in absolute value                                                   *)
AllWithinThreshold(a) ==
    \A i \in 1..Len(a) : \A j \in 1..3 :
        /\ RLe(a[i][j], AutoThreshold)
        /\ RLe(RNeg(AutoThreshold), a[i][j])

(* C9: in auto mode the outcome is that of crystal mode when the maximum   *)
(* absolute component is <= 1.2 (1.2 included) and that of cart mode       *)
(* otherwise.                                                              *)
C9_AutoClassifiesOnMaxAbs ==
    (kpc = "done" /\ kmode = "auto" /\ Width(kxyz) >= 3) =>
        [err |-> kerr, out |-> kout] =
            KPointsToCart2D(kxyz, kb,
                IF AllWithinThreshold(kxyz) THEN "crystal" ELSE "cart")

(* a call in auto mode whose largest component is exactly 1.2, on a basis  *)
(* for which the two modes differ                                          *)
C9_Witness ==
    /\ kpc = "done" /\ kmode = "auto" /\ Width(kxyz) >= 3
    /\ AllWithinThreshold(kxyz)
    /\ \E i \in 1..Len(kxyz) : \E j \in 1..3 : kxyz[i][j] = AutoThreshold
    /\ kerr = "none"
    /\ KPointsToCart2D(kxyz, kb, "crystal") # KPointsToCart2D(kxyz, kb, "cart")

(* C10: in crystal mode every k-point (k1,k2,k3) is mapped to the first    *)
(* two components of k1*b1 + k2*b2 + k3*b3, b1..b3 the rows of the basis;  *)
(* with the identity basis the first two input components are returned.    *)
C10_CrystalIsLinearCombination ==
    (kpc = "done" /\ kmode = "crystal" /\ kerr = "none") =>
        /\ Len(kout) = Len(kxyz)
        /\ \A i \in 1..Len(kxyz) : \A x \in 1..2 :
               kout[i][x] = RAdd(RAdd(RMul(kxyz[i][1], kb[1][x]),
                                      RMul(kxyz[i][2], kb[2][x])),
                                 RMul(kxyz[i][3], kb[3][x]))
        /\ kb = Identity3 =>
               \A i \in 1..Len(kxyz) : kout[i] = <<kxyz[i][1], kxyz[i][2]>>

C10_Witness ==
    /\ kpc = "done" /\ kmode = "crystal" /\ kerr = "none"
    /\ kb # Identity3
    /\ Len(kxyz) = 2
    /\ kout[1] # <<kxyz[1][1], kxyz[1][2]>>

(* C11: in cart mode every k-point of at least 3 components is returned as *)
(* its first two components, in input order and with the same count,      *)
(* whatever the basis (also one that is not 3x3).                          *)
C11_CartReturnsFirstTwo ==
    (kpc = "done" /\ kmode = "cart" /\ Width(kxyz) >= 3) =>
        /\ kerr = "none"
        /\ Len(kout) = Len(kxyz)
        /\ \A i \in 1..Len(kxyz) : kout[i] = <<kxyz[i][1], kxyz[i][2]>>

C11_Witness ==
    /\ kpc = "done" /\ kmode = "cart" /\ Width(kxyz) >= 3
    /\ kb # Identity3 /\ Len(kb) = 3
    /\ Len(kxyz) = 2 /\ kxyz[1] # kxyz[2]
    /\ Len(kout) = 2

IsThreeByThree(m) == Len(m) = 3 /\ \A i \in 1..Len(m) : Len(m[i]) = 3

(* C12: in every mode, a k-point array with fewer than 3 columns or a      *)
(* basis that is not 3x3 makes the call raise; no point set is returned.   *)
C12_BadShapeRaises ==
    (kpc = "done" /\ (Width(kxyz) < 3 \/ ~IsThreeByThree(kb))) => kerr # "none"

(***************************************************************************)
(* plot_lambda_fs: the optional overlay of the first Brillouin zone.       *)
(* The model starts after the table has been read and its width checked.   *)
(* The XML file is held by what reading it yields.                         *)
(***************************************************************************)
BZ_NEIGHBOR_RANGE == 2

KPOINT_MODE == "auto"

(* first_bz_polygon_2d_from_b1b2 as one call: its result or its ValueError *)
FirstBZOrRaise(u, v, K) ==
    LET gs == Candidates(u, v, K)
    IN  IF Len(gs) = 0 THEN Raise("NoNeighborG")
        ELSE LET p == ClipAll(BoundingSquare(BoundingR(gs)), gs)
             IN  IF Len(p) < 3 THEN Raise("DegeneratePolygon") ELSE Return(p)

XmlFailures == {"Malformed", "NoLatticeTag", "NotThreeVectors"}

ZeroPlane3 == <<<<Zero, Zero, Zero>>, <<Zero, Zero, Zero>>, <<Zero, Zero, One>>>>

XmlBases == {m \in Bases : Len(m) = 3} \cup {ZeroPlane3}

(* the values the knob KPOINT_MODE can be edited to, and one it should not *)
KnobModes == {KPOINT_MODE, "crystal", "cart", "reduced"}

(* tables of two k-points                                                  *)
OverlayTables == {a \in KArraysOfShape(2, 3) : a[1][2] = a[1][3]}

Column(a, j) == [i \in 1..Len(a) |-> a[i][j]]

InitOverlay ==
    /\ oxml \in BOOLEAN
    /\ oparse \in XmlFailures \cup XmlBases
    /\ odata \in OverlayTables
    /\ omode \in KnobModes
    /\ obz = None /\ okxy = None /\ oplot = None
    /\ opc = "exists"
    /\ NoBZ /\ NoClip /\ NoMap /\ NoLink /\ NoBands /\ NoPlots

(* the handler that forgets to drop the polygon                            *)
OverlayExceptKeepsPolygon ==
    /\ okxy' = None
    /\ opc' = "render"
    /\ UNCHANGED obz

(* except Exception: bz_poly = None; kxy = None                            *)
OverlayExcept ==
    /\ obz' = None
    /\ okxy' = None
    /\ opc' = "render"

OverlayFrame ==
    UNCHANGED <<oxml, oparse, odata, omode, bzvars, clipvars, mapvars,
                linkvars, bandvars, plotvars>>

(* if xml_path.exists(): ... else: print("[skip] ...")                     *)
XmlExists ==
    /\ opc = "exists"
    /\ opc' = IF oxml THEN "read" ELSE "render"
    /\ UNCHANGED <<obz, okxy, oplot>>
    /\ OverlayFrame

(* b = read_reciprocal_lattice_from_qe_xml(xml_path)                       *)
ReadXml ==
    /\ opc = "read"
    /\ IF oparse \in XmlFailures THEN OverlayExcept
       ELSE opc' = "bz" /\ UNCHANGED <<obz, okxy>>
    /\ UNCHANGED oplot
    /\ OverlayFrame

(* bz_poly = first_bz_polygon_2d_from_b1b2(b[0, :2], b[1, :2], N=...)      *)
BuildBZ ==
    /\ opc = "bz"
    /\ LET r == FirstBZOrRaise(<<oparse[1][1], oparse[1][2]>>,
                               <<oparse[2][1], oparse[2][2]>>,
                               BZ_NEIGHBOR_RANGE)
       IN  IF r.err # "none" THEN OverlayExcept
           ELSE obz' = r.out /\ opc' = "map" /\ UNCHANGED okxy
    /\ UNCHANGED oplot
    /\ OverlayFrame

(* kxy = kpoints_to_cart_2d(kxyz, b, mode=KPOINT_MODE)                     *)
MapKPoints ==
    /\ opc = "map"
    /\ LET r == KPointsToCart2D(odata, oparse, omode)
       IN  IF r.err # "none" THEN OverlayExcept
           ELSE okxy' = r.out /\ opc' = "render" /\ UNCHANGED obz
    /\ UNCHANGED oplot
    /\ OverlayFrame

(* kx, ky from kxy or from the raw columns; plot_scatter_2d(..., bz_poly)  *)
Render ==
    /\ opc = "render"
    /\ LET src == IF okxy = None THEN odata ELSE okxy
       IN  oplot' = <<[kx |-> Column(src, 1), ky |-> Column(src, 2),
                       bz_poly |-> obz]>>
    /\ opc' = "done"
    /\ UNCHANGED <<obz, okxy>>
    /\ OverlayFrame

NextOverlay == XmlExists \/ ReadXml \/ BuildBZ \/ MapKPoints \/ Render

SpecOverlay == InitOverlay /\ [][NextOverlay]_vars

OverlayFails ==
    \/ ~oxml
    \/ oparse \in XmlFailures
    \/ /\ oparse \notin XmlFailures
       /\ \/ FirstBZOrRaise(<<oparse[1][1], oparse[1][2]>>,
                            <<oparse[2][1], oparse[2][2]>>,
                            BZ_NEIGHBOR_RANGE).err # "none"
          \/ KPointsToCart2D(odata, oparse, omode).err # "none"

(* C13: plot_lambda_fs always reaches the rendering of the FS map; when    *)
(* the XML is missing or any overlay step fails, the map is drawn without  *)
(* polygon and with the raw kx, ky columns; the polygon and the mapped     *)
(* k-points are never used one without the other.                          *)
C13_OverlayFailSoft ==
    /\ opc \in {"exists", "read", "bz", "map", "render", "done"}
    /\ (opc = "done") =>
          /\ oplot # None
          /\ OverlayFails =>
                /\ oplot[1].bz_poly = None
                /\ oplot[1].kx = Column(odata, 1)
                /\ oplot[1].ky = Column(odata, 2)
          /\ (oplot[1].bz_poly = None) <=> (okxy = None)
          /\ okxy # None =>
                /\ oplot[1].kx = Column(okxy, 1)
                /\ oplot[1].ky = Column(okxy, 2)

(* the polygon had been built when the k-point mapping failed              *)
C13_Witness ==
    /\ opc = "done"
    /\ oxml /\ oparse \notin XmlFailures
    /\ FirstBZOrRaise(<<oparse[1][1], oparse[1][2]>>,
                      <<oparse[2][1], oparse[2][2]>>,
                      BZ_NEIGHBOR_RANGE).err = "none"
    /\ KPointsToCart2D(odata, oparse, omode).err # "none"
    /\ oplot # None /\ oplot[1].bz_poly = None

(***************************************************************************)
(* The three core functions side by side: one call of any of them.         *)
(***************************************************************************)
InitCore == Init \/ InitClip \/ InitMap

NextCore == GenerateCandidates \/ ClipStep \/ Finish \/ CallClip \/ CallMap

SpecCore == InitCore /\ [][NextCore]_vars

(* C14: no step of _clip_polygon_halfplane, first_bz_polygon_2d_from_b1b2  *)
(* or kpoints_to_cart_2d, returning or raising, changes the polygon, the   *)
(* basis vectors and shell count, or the k-point array and basis it was    *)
(* called with.                                                            *)
C14_InputsUnchanged ==
    [][ /\ cin' = cin
        /\ <<b1, b2, N>>' = <<b1, b2, N>>
        /\ <<kxyz, kb, kmode>>' = <<kxyz, kb, kmode>> ]_vars

(* a call has returned something else than it was given *)
C14_Witness ==
    /\ cpc = "done" /\ Len(cin) >= 3 /\ cout # cin /\ Len(cout) >= 3

(***************************************************************************)
(* scripts/qe/link_ph_outputs.py.                                          *)
(* A path is a string "directory/name"; the directories are the working    *)
(* directory cwd, dvscf_dir dv (given with --dvscf_dir, here not one of    *)
(* the two _ph0 directories), cwd/tmp/_ph0, cwd/out/_ph0 and a directory   *)
(* ext outside of them.  A name is held by the shape the script's regular  *)
(* expressions see in it (P stands for the prefix) and the integers they   *)
(* capture.  The file system maps each path to what is there.              *)
(***************************************************************************)
Name(d, sh, q, m) == [dir |-> d, shape |-> sh, iq |-> q, ipert |-> m]

PathInfo ==
    ("cwd/P.dyn1"          :> Name("cwd", "dynN", 1, 0)) @@
    ("cwd/P.dyn1.xml"      :> Name("cwd", "dyn*", 0, 0)) @@
    ("dv/P.dyn_q1"         :> Name("dv", "dyn_qN", 1, 0)) @@
    ("dv/P.dvscf1_1"       :> Name("dv", "dvscfN_M", 1, 1)) @@
    ("dv/P.dvscf_q1"       :> Name("dv", "dvscf_qN", 1, 0)) @@
    ("dv/P.dvscf2_1"       :> Name("dv", "dvscfN_M", 2, 1)) @@
    ("dv/P.dvscf_q2"       :> Name("dv", "dvscf_qN", 2, 0)) @@
    ("dv/P.dvscf1_2"       :> Name("dv", "dvscfN_M", 1, 2)) @@
    ("tmp/P.P.dvscf1_1"    :> Name("tmp", "P.dvscfN_M", 1, 1)) @@
    ("tmp/P.dvscf2"        :> Name("tmp", "dvscfN", 2, 0)) @@
    ("out/P.dvscf1_1"      :> Name("out", "dvscfN_M", 1, 1)) @@
    ("tmp/P.dvscf1_3"      :> Name("tmp", "dvscfN_M", 1, 3)) @@
    ("tmp/P.P.dvscf1_2"    :> Name("tmp", "P.dvscfN_M", 1, 2)) @@
    ("tmp/P.dvscf2_4"      :> Name("tmp", "dvscfN_M", 2, 4)) @@
    ("ext/data"            :> Name("ext", "other", 0, 0)) @@
    ("ext/gone"            :> Name("ext", "other", 0, 0))

Paths == DOMAIN PathInfo

Absent == [k |-> "absent", to |-> ""]
File == [k |-> "file", to |-> ""]
Dir == [k |-> "dir", to |-> ""]
Link(t) == [k |-> "link", to |-> t]

(* Path.resolve(): follow symbolic links; a link to nothing resolves to    *)
(* the path it names                                                       *)
RECURSIVE ResolveFrom(_, _, _)
ResolveFrom(f, p, n) ==
    IF f[p].k # "link" THEN p
    ELSE IF n = 0 THEN "loop"
    ELSE ResolveFrom(f, f[p].to, n - 1)

Resolve(f, p) == ResolveFrom(f, p, Cardinality(Paths))

IsSymlink(f, p) == f[p].k = "link"

KindBehind(f, p) ==
    IF Resolve(f, p) = "loop" THEN "absent" ELSE f[Resolve(f, p)].k

Exists(f, p) == KindBehind(f, p) \in {"file", "dir"}

IsFile(f, p) == KindBehind(f, p) = "file"

(* safe_symlink without the test at line 31 *)
SafeSymlinkOverwrites(f, src, dst) ==
    LET s == Resolve(f, src)
    IN  IF IsSymlink(f, dst) /\ Resolve(f, dst) = s THEN f
        ELSE IF Resolve(f, dst) = s THEN f
        ELSE [f EXCEPT ![dst] = Link(s)]

(* safe_symlink without the tests at lines 46-54 *)
SafeSymlinkNoSelfCheck(f, src, dst) ==
    LET s == Resolve(f, src)
    IN  IF Exists(f, dst) /\ ~IsSymlink(f, dst) THEN f
        ELSE IF IsSymlink(f, dst) /\ Resolve(f, dst) = s THEN f
        ELSE [f EXCEPT ![dst] = Link(s)]

(* safe_symlink(src, dst): the file system it leaves.  dst.resolve() does  *)
(* not raise for a path that does not exist, so the handlers at lines 41   *)
(* and 50 are not entered; the comparison of line 52 is that of line 47.   *)
SafeSymlink(f, src, dst) ==
    LET s == Resolve(f, src)
    IN  IF Exists(f, dst) /\ ~IsSymlink(f, dst) THEN f
        ELSE IF IsSymlink(f, dst) /\ Resolve(f, dst) = s THEN f
        ELSE IF Resolve(f, dst) = s THEN f
        ELSE [f EXCEPT ![dst] = Link(s)]

DvscfShapes == {"dvscfN_M", "P.dvscfN_M", "dvscfN", "P.dvscfN", "dvscf_qN"}

(* exclude_src: PREFIX.dvscfN_1 or PREFIX.dvscf_qN *)
ExcludeSrc(nm) ==
    \/ nm.shape = "dvscfN_M" /\ nm.ipert = 1
    \/ nm.shape = "dvscf_qN"

(* parse without the exclusion *)
ParseNoExclude(nm) ==
    IF nm.shape \in {"dvscfN_M", "P.dvscfN_M"} THEN <<nm.iq, nm.ipert>>
    ELSE IF nm.shape \in {"dvscfN", "P.dvscfN"} THEN <<nm.iq, 1>>
    ELSE None

(* parse(name): (iq, ipert) or None *)
Parse(nm) ==
    IF ExcludeSrc(nm) THEN None
    ELSE IF nm.shape \in {"dvscfN_M", "P.dvscfN_M"} THEN <<nm.iq, nm.ipert>>
    ELSE IF nm.shape \in {"dvscfN", "P.dvscfN"} THEN <<nm.iq, 1>>
    ELSE None

Roots == <<"dv", "tmp", "out">>

(* root.rglob("*dvscf*") *)
Listed(f, r) ==
    {p \in Paths : /\ PathInfo[p].dir = Roots[r]
                   /\ PathInfo[p].shape \in DvscfShapes
                   /\ f[p] # Absent}

(* cwd.glob(f"{prefix}.dyn*") *)
DynFiles(f) ==
    {p \in Paths : /\ PathInfo[p].dir = "cwd"
                   /\ PathInfo[p].shape \in {"dynN", "dyn*"}
                   /\ f[p] # Absent}

PathOf(d, sh, q, m) == CHOOSE p \in Paths : PathInfo[p] = Name(d, sh, q, m)

DynDst(q) == PathOf("dv", "dyn_qN", q, 0)
DvscfDst1(q) == PathOf("dv", "dvscfN_M", q, 1)
DvscfDst2(q) == PathOf("dv", "dvscf_qN", q, 0)

Qs == {PathInfo[p].iq : p \in {x \in Paths : Parse(PathInfo[x]) # None}}

NoHits == [q \in Qs |-> None]

(* a selection that keeps the first file met for a q-point *)
RecordFirstWins(h, q, m, f) ==
    IF h[q] = None THEN [h EXCEPT ![q] = <<m, f>>] ELSE h

(* lines 136-143 *)
Record(h, q, m, f) ==
    IF h[q] = None THEN [h EXCEPT ![q] = <<m, f>>]
    ELSE IF h[q][1] # 1 /\ m = 1 THEN [h EXCEPT ![q] = <<m, f>>]
    ELSE IF h[q][1] # 1 /\ m < h[q][1] THEN [h EXCEPT ![q] = <<m, f>>]
    ELSE h

(* the calls of the final loop that makes one name only *)
LinkCallsFirstNameOnly(h) ==
    LET RECURSIVE From(_)
        From(q) == IF q \notin Qs THEN <<>>
                   ELSE IF h[q] = None THEN From(q + 1)
                   ELSE <<<<h[q][2], DvscfDst1(q)>>>> \o From(q + 1)
    IN  From(1)

(* lines 152-155: the safe_symlink calls, in the order of sorted(hits) *)
LinkCalls(h) ==
    LET RECURSIVE From(_)
        From(q) == IF q \notin Qs THEN <<>>
                   ELSE IF h[q] = None THEN From(q + 1)
                   ELSE <<<<h[q][2], DvscfDst1(q)>>, <<h[q][2], DvscfDst2(q)>>>>
                        \o From(q + 1)
    IN  From(1)

(* what each path can hold when main starts; the paths not listed here     *)
(* hold nothing, except ext/data, a regular file                           *)
StartOptions ==
    ("cwd/P.dyn1"       :> {Absent, File, Link("dv/P.dyn_q1")}) @@
    ("cwd/P.dyn1.xml"   :> {Absent, File}) @@
    ("dv/P.dyn_q1"      :> {Absent, File, Link("ext/data")}) @@
    ("dv/P.dvscf1_1"    :> {Absent, File, Dir, Link("ext/data"), Link("ext/gone")}) @@
    ("dv/P.dvscf_q1"    :> {Absent, File, Link("tmp/P.P.dvscf1_1")}) @@
    ("dv/P.dvscf1_2"    :> {Absent, File}) @@
    ("tmp/P.P.dvscf1_1" :> {Absent, File, Link("ext/data")}) @@
    ("tmp/P.dvscf2"     :> {Absent, File}) @@
    ("out/P.dvscf1_1"   :> {Absent, File}) @@
    ("ext/data"         :> {File})

(* every choice of one option per path *)
RECURSIVE Choices(_)
Choices(ps) ==
    IF ps = {} THEN {[p \in Paths |-> Absent]}
    ELSE LET q == CHOOSE x \in ps : TRUE
         IN  {[c EXCEPT ![q] = e] : c \in Choices(ps \ {q}), e \in StartOptions[q]}

StartFileSystems == Choices(DOMAIN StartOptions)

InitLink ==
    /\ fs \in StartFileSystems
    /\ fs0 = fs
    /\ hits = NoHits
    /\ root = 0
    /\ scanned = {}
    /\ todo = <<>>
    /\ rc = -1
    /\ mpc = "dyn"
    /\ NoBZ /\ NoClip /\ NoMap /\ NoOverlay /\ NoBands /\ NoPlots

LinkFrame ==
    UNCHANGED <<fs0, bzvars, clipvars, mapvars, overlayvars, bandvars,
                plotvars>>

(* lines 73-86: return 1 without a dyn file, else link every PREFIX.dynN   *)
LinkDyn ==
    /\ mpc = "dyn"
    /\ IF DynFiles(fs) = {}
       THEN rc' = 1 /\ mpc' = "returned" /\ UNCHANGED <<fs, root>>
       ELSE /\ fs' = IF PathOf("cwd", "dynN", 1, 0) \in DynFiles(fs)
                     THEN SafeSymlink(fs, PathOf("cwd", "dynN", 1, 0), DynDst(1))
                     ELSE fs
            /\ root' = 1
            /\ mpc' = "scan"
            /\ UNCHANGED rc
    /\ UNCHANGED <<hits, scanned, todo>>
    /\ LinkFrame

(* lines 129-143: one entry of the current root, in whatever order rglob   *)
(* yields them                                                             *)
ScanEntry ==
    /\ mpc = "scan"
    /\ \E f \in Listed(fs, root) \ scanned :
          /\ scanned' = scanned \cup {f}
          /\ hits' = IF IsFile(fs, f) /\ Parse(PathInfo[f]) # None
                     THEN Record(hits, Parse(PathInfo[f])[1],
                                 Parse(PathInfo[f])[2], f)
                     ELSE hits
    /\ UNCHANGED <<fs, root, todo, rc, mpc>>
    /\ LinkFrame

(* lines 126-128: the next root once rglob is exhausted *)
NextRoot ==
    /\ mpc = "scan"
    /\ Listed(fs, root) \subseteq scanned
    /\ root < Len(Roots)
    /\ root' = root + 1
    /\ scanned' = {}
    /\ UNCHANGED <<fs, hits, todo, rc, mpc>>
    /\ LinkFrame

(* lines 145-152: return 2 without a hit, else enter the final loop *)
EndScan ==
    /\ mpc = "scan"
    /\ Listed(fs, root) \subseteq scanned
    /\ root = Len(Roots)
    /\ IF \A q \in Qs : hits[q] = None
       THEN rc' = 2 /\ mpc' = "returned" /\ UNCHANGED todo
       ELSE todo' = LinkCalls(hits) /\ mpc' = "link" /\ UNCHANGED rc
    /\ UNCHANGED <<fs, hits, root, scanned>>
    /\ LinkFrame

(* lines 154-155: one safe_symlink call of the final loop *)
LinkDvscf ==
    /\ mpc = "link"
    /\ todo # <<>>
    /\ fs' = SafeSymlink(fs, Head(todo)[1], Head(todo)[2])
    /\ todo' = Tail(todo)
    /\ UNCHANGED <<hits, root, scanned, rc, mpc>>
    /\ LinkFrame

(* lines 157-158 *)
ReturnZero ==
    /\ mpc = "link"
    /\ todo = <<>>
    /\ rc' = 0
    /\ mpc' = "returned"
    /\ UNCHANGED <<fs, hits, root, scanned, todo>>
    /\ LinkFrame

NextLink == LinkDyn \/ ScanEntry \/ NextRoot \/ EndScan \/ LinkDvscf \/ ReturnZero

SpecLink == InitLink /\ [][NextLink]_vars

(* C15: no step of main changes a path that holds a regular file (nor one  *)
(* that holds a directory): what safe_symlink unlinks is a symbolic link,  *)
(* so every regular file of the start is the same regular file at the end. *)
C15_RegularFilesKept ==
    [][\A p \in Paths : fs[p] # fs'[p] => fs[p].k \in {"link", "absent"}]_vars

(* names that hold regular files were given to safe_symlink and survived *)
C15_Witness ==
    /\ mpc = "returned" /\ rc = 0
    /\ \E q \in Qs : /\ hits[q] # None
                     /\ fs0[DvscfDst1(q)] = File /\ fs[DvscfDst1(q)] = File
                     /\ fs0[DvscfDst2(q)].k = "link" /\ fs[DvscfDst2(q)] # fs0[DvscfDst2(q)]

(* C16: no symbolic link made by the script points to its own path; where  *)
(* the source resolves to the destination path, no link is made.           *)
C16_NoSelfLink ==
    \A p \in Paths : (fs[p] # fs0[p] /\ fs[p].k = "link") =>
                        fs[p].to # p /\ Resolve(fs, p) # "loop"

(* the dyn source resolved to its own destination path and was passed over *)
C16_Witness ==
    /\ mpc # "dyn"
    /\ fs0[PathOf("cwd", "dynN", 1, 0)] = Link(DynDst(1))
    /\ fs0[DynDst(1)] = Absent
    /\ fs[DynDst(1)] = Absent

DestinationForm(p) == ExcludeSrc(PathInfo[p])

(* C17: the source recorded for a q-point never has a name of the form     *)
(* PREFIX.dvscfN_1 or PREFIX.dvscf_qN, whatever root it lies in.           *)
C17_DestinationNamesNotSources ==
    \A q \in Qs : hits[q] # None => ~DestinationForm(hits[q][2])

(* files of destination form were met in dvscf_dir and in out/_ph0 *)
C17_Witness ==
    /\ mpc = "link"
    /\ \E p \in Paths : /\ PathInfo[p].dir = "dv" /\ DestinationForm(p)
                        /\ IsFile(fs0, p) /\ IsSymlink(fs0, p)
    /\ \E p \in Paths : /\ PathInfo[p].dir = "out" /\ DestinationForm(p)
                        /\ IsFile(fs0, p)
    /\ \E q \in Qs : hits[q] # None

Satisfied(q, d, kinds) ==
    \/ fs[d].k = "link" /\ Resolve(fs, d) = Resolve(fs, hits[q][2])
    \/ fs0[d].k \in kinds /\ fs[d] = fs0[d]

NoMatch == <<>>

(* the names of the working directory, in sorted order *)
OutNames == <<"a.scf.out", "b.nscf.out", "run.log">>

(* the names each glob pattern matches *)
GlobMatches ==
    ("*nscf*.out" :> {"b.nscf.out"}) @@
    ("*scf*.out" :> {"a.scf.out", "b.nscf.out"})

Missing == [there |-> FALSE, lines |-> <<>>]

Text(ls) == [there |-> TRUE, lines |-> ls]

FermiLines == {<<-3, 2>>, <<5, 2>>}

Contents ==
    {Missing, Text(<<NoMatch>>)}
    \cup {Text(<<e>>) : e \in FermiLines}
    \cup {Text(<<e, NoMatch, d>>) : e, d \in FermiLines}

(* parse_fermi_from_qe_out: the last match, None without a match or when   *)
(* open() raises                                                           *)
ParseFermiFromQeOut(files, name) ==
    IF name \notin DOMAIN files \/ ~files[name].there THEN None
    ELSE LET ls == files[name].lines
             ms == {i \in 1..Len(ls) : ls[i] # NoMatch}
         IN  IF ms = {} THEN None
             ELSE ls[CHOOSE i \in ms : \A j \in ms : j <= i]

(* sorted(glob.glob(pat))[0], None without a match *)
FirstOf(files, pat) ==
    LET is == {i \in 1..Len(OutNames) :
                  OutNames[i] \in GlobMatches[pat] /\ files[OutNames[i]].there}
    IN  IF is = {} THEN None
        ELSE <<OutNames[CHOOSE i \in is : \A j \in is : i <= j]>>

(* find_qe_out_for_fermi *)
FindQeOutForFermi(files) ==
    IF FirstOf(files, "*nscf*.out") # None THEN FirstOf(files, "*nscf*.out")
    ELSE FirstOf(files, "*scf*.out")

(* resolve_ef that tests the truth value of set_fermi *)
ResolveEfTruthy(a, files) ==
    IF a.set_fermi # None /\ a.set_fermi # Zero
    THEN <<a.set_fermi, "manual">>
    ELSE IF a.fermi_from # None
    THEN LET ef == ParseFermiFromQeOut(files, a.fermi_from[1])
         IN  IF ef = None THEN <<None, "fermi-from-no-match">>
             ELSE <<ef, "fermi-from">>
    ELSE IF a.no_fermi_search THEN <<None, "disabled">>
    ELSE LET outp == FindQeOutForFermi(files)
         IN  IF outp = None THEN <<None, "auto-none">>
             ELSE LET ef == ParseFermiFromQeOut(files, outp[1])
                  IN  IF ef = None THEN <<None, "auto-no-match">>
                      ELSE <<ef, "auto">>

(* resolve_ef: the pair (ef, ef_src) *)
ResolveEf(a, files) ==
    IF a.set_fermi # None THEN <<a.set_fermi, "manual">>
    ELSE IF a.fermi_from # None
    THEN LET ef == ParseFermiFromQeOut(files, a.fermi_from[1])
         IN  IF ef = None THEN <<None, "fermi-from-no-match">>
             ELSE <<ef, "fermi-from">>
    ELSE IF a.no_fermi_search THEN <<None, "disabled">>
    ELSE LET outp == FindQeOutForFermi(files)
         IN  IF outp = None THEN <<None, "auto-none">>
             ELSE LET ef == ParseFermiFromQeOut(files, outp[1])
                  IN  IF ef = None THEN <<None, "auto-no-match">>
                      ELSE <<ef, "auto">>

(* a - e for a list of arrays a *)
Shifted(a, e) == [i \in 1..Len(a) |-> [j \in 1..Len(a[i]) |-> RSub(a[i][j], e)]]

(* plot_bands that shifts the DFT bands only *)
PlotEnergiesDftOnly(in, ef, align_fermi, wannier_ef_override) ==
    IF align_fermi /\ ef # None
    THEN [dft_E |-> Shifted(in.dft_E, ef), wy_blocks |-> in.wy_blocks]
    ELSE in

(* lines 306-310: the energies plot_bands draws *)
PlotEnergies(in, ef, align_fermi, wannier_ef_override) ==
    IF align_fermi /\ ef # None
    THEN LET ef_w == IF wannier_ef_override = None THEN ef
                     ELSE wannier_ef_override
         IN  [dft_E |-> Shifted(in.dft_E, ef),
              wy_blocks |-> Shifted(in.wy_blocks, ef_w)]
    ELSE in

BandArgs ==
    [no_fermi_search : BOOLEAN,
     fermi_from : {None, <<"run.log">>, <<"a.scf.out">>},
     set_fermi : {None, Zero, One},
     no_align_fermi : BOOLEAN,
     wannier_fermi : {None, Zero, Half}]

(* the parsed band files: DFT bands by k-point, Wannier blocks *)
BandInputs ==
    {[dft_E |-> <<<<Q(-2), One>>, <<Zero, Q(3)>>>>,
      wy_blocks |-> <<<<Q(-2), One>>, <<Half>>>>],
     [dft_E |-> <<<<Half>>>>, wy_blocks |-> <<>>]}

InitBands ==
    /\ wargs \in BandArgs
    /\ wfiles \in [{OutNames[i] : i \in 1..Len(OutNames)} -> Contents]
    /\ win \in BandInputs
    /\ wef = None /\ wsrc = "none" /\ wout = None
    /\ wpc = "resolve"
    /\ NoBZ /\ NoClip /\ NoMap /\ NoOverlay /\ NoLink /\ NoPlots

BandFrame ==
    UNCHANGED <<wargs, wfiles, win, bzvars, clipvars, mapvars, overlayvars,
                linkvars, plotvars>>

(* line 370: ef, ef_src = resolve_ef(...) *)
CallResolveEf ==
    /\ wpc = "resolve"
    /\ wef' = ResolveEf(wargs, wfiles)[1]
    /\ wsrc' = ResolveEf(wargs, wfiles)[2]
    /\ wpc' = "plot"
    /\ UNCHANGED wout
    /\ BandFrame

(* lines 371-386: align_fermi = not args.no_align_fermi; plot_bands(...) *)
CallPlotBands ==
    /\ wpc = "plot"
    /\ wout' = <<PlotEnergies(win, wef, ~wargs.no_align_fermi,
                              wargs.wannier_fermi)>>
    /\ wpc' = "done"
    /\ UNCHANGED <<wef, wsrc>>
    /\ BandFrame

NextBands == CallResolveEf \/ CallPlotBands

SpecBands == InitBands /\ [][NextBands]_vars

LastFermiOf(name) ==
    IF ~wfiles[name].there THEN None
    ELSE IF \A i \in 1..Len(wfiles[name].lines) : wfiles[name].lines[i] = NoMatch
    THEN None
    ELSE LET ls == wfiles[name].lines
         IN  ls[CHOOSE i \in 1..Len(ls) :
                   ls[i] # NoMatch /\ \A j \in (i + 1)..Len(ls) : ls[j] = NoMatch]

(* C19: once resolve_ef has returned, Ef is the --set-fermi value if one   *)
(* was given; else what --fermi-from FILE holds (None without a match);    *)
(* else None under --no-fermi-search; else what the first '*nscf*.out'     *)
(* holds, or without such a file the first '*scf*.out', or None without    *)
(* either.  The call always returns.                                       *)
C19_EfPriority ==
    /\ wpc \in {"resolve", "plot", "done"}
    /\ wpc \in {"plot", "done"} =>
          IF wargs.set_fermi # None THEN wef = wargs.set_fermi
          ELSE IF wargs.fermi_from # None
               THEN wef = LastFermiOf(wargs.fermi_from[1])
          ELSE IF wargs.no_fermi_search THEN wef = None
          ELSE IF wfiles["b.nscf.out"].there THEN wef = LastFermiOf("b.nscf.out")
          ELSE IF wfiles["a.scf.out"].there THEN wef = LastFermiOf("a.scf.out")
          ELSE wef = None

(* the nscf output won over an scf output that sorts first and holds       *)
(* another value                                                           *)
C19_Witness ==
    /\ wpc = "plot"
    /\ wargs.set_fermi = None /\ wargs.fermi_from = None
    /\ ~wargs.no_fermi_search
    /\ LastFermiOf("a.scf.out") # None
    /\ LastFermiOf("b.nscf.out") # None
    /\ LastFermiOf("a.scf.out") # LastFermiOf("b.nscf.out")
    /\ wef = LastFermiOf("b.nscf.out")

(* C20: with alignment enabled, Ef resolved and no --wannier-fermi, Ef is  *)
(* subtracted from every DFT energy and from every energy of every Wannier *)
(* block; with alignment disabled or Ef None both data sets are drawn as   *)
(* read; the subtraction is applied to both data sets or to neither.       *)
C20_SameShiftForBoth ==
    (wpc = "done") =>
        LET applies == ~wargs.no_align_fermi /\ wef # None
        IN  /\ (applies /\ wargs.wannier_fermi = None) =>
                  /\ wout[1].dft_E = Shifted(win.dft_E, wef)
                  /\ wout[1].wy_blocks = Shifted(win.wy_blocks, wef)
            /\ ~applies => wout[1] = win
            /\ applies =>
                  /\ wout[1].dft_E = Shifted(win.dft_E, wef)
                  /\ \E e \in {wef, wargs.wannier_fermi} :
                        e # None /\ wout[1].wy_blocks = Shifted(win.wy_blocks, e)

C20_Witness ==
    /\ wpc = "done"
    /\ ~wargs.no_align_fermi /\ wef # None /\ wef # Zero
    /\ wargs.wannier_fermi = None
    /\ Len(win.wy_blocks) = 2
    /\ wout[1].dft_E # win.dft_E /\ wout[1].wy_blocks # win.wy_blocks

(* C23: every vertex of the sequence _clip_polygon_halfplane returns, kept *)
(* input vertex or emitted intersection point, satisfies n.x <= c + eps.   *)
C23_ReturnedVerticesInside ==
    cpc = "done" => \A i \in 1..Len(cout) : Inside(cout[i], cn, cc, ceps)

NoRepeatedVertex(pl) ==
    \A i \in 1..Len(pl) : \A j \in 1..Len(pl) : i # j => pl[i] # pl[j]

(* C25: the polygon first_bz_polygon_2d_from_b1b2 returns holds no point   *)
(* twice.                                                                  *)
C25_NoRepeatedVertex ==
    pc = "returned" => NoRepeatedVertex(poly)

(***************************************************************************)
(* first_bz_polygon_2d_from_b1b2 on sheared bases of the square lattice:   *)
(* b1 = (1, 0), b2 = (k, 1).                                               *)
(***************************************************************************)
SkewSecondVectors == {V(k, 1) : k \in 0..11}

SkewShells == {1}

InitSkew ==
    /\ b1 = V(1, 0)
    /\ b2 \in SkewSecondVectors
    /\ N \in SkewShells
    /\ Gs = <<>>
    /\ rest = {}
    /\ poly = <<>>
    /\ pc = "start"
    /\ err = "none"
    /\ NoClip /\ NoMap /\ NoScripts

SpecSkew == InitSkew /\ [][Next]_vars

(* C24: for linearly independent b1, b2 and N >= 1 every vertex of the     *)
(* returned polygon lies strictly inside the bounding square of half-width *)
(* R = 2.5 * max|G|.                                                       *)
C24_SquareNeverClips ==
    (pc = "returned" /\ ~Parallel(b1, b2) /\ N >= 1) =>
        \A i \in 1..Len(poly) :
            /\ RLt(RAbs(poly[i][1]), BoundingR(Gs))
            /\ RLt(RAbs(poly[i][2]), BoundingR(Gs))

(***************************************************************************)
(* link_ph_outputs.py main on file systems with several candidate sources  *)
(* for one q-point inside one root.                                        *)
(***************************************************************************)
ScanOptions ==
    ("cwd/P.dyn1"       :> {File}) @@
    ("dv/P.dvscf1_2"    :> {Absent, File}) @@
    ("tmp/P.dvscf1_3"   :> {Absent, File}) @@
    ("tmp/P.P.dvscf1_2" :> {Absent, File}) @@
    ("tmp/P.P.dvscf1_1" :> {Absent, File, Dir}) @@
    ("out/P.dvscf1_1"   :> {Absent, File}) @@
    ("tmp/P.dvscf2"     :> {Absent, File}) @@
    ("tmp/P.dvscf2_4"   :> {Absent, File}) @@
    ("ext/data"         :> {File})

RECURSIVE ChoicesFrom(_, _)
ChoicesFrom(opts, ps) ==
    IF ps = {} THEN {[p \in Paths |-> Absent]}
    ELSE LET q == CHOOSE x \in ps : TRUE
         IN  {[c EXCEPT ![q] = e] : c \in ChoicesFrom(opts, ps \ {q}), e \in opts[q]}

InitScan ==
    /\ fs \in ChoicesFrom(ScanOptions, DOMAIN ScanOptions)
    /\ fs0 = fs
    /\ hits = NoHits
    /\ root = 0
    /\ scanned = {}
    /\ todo = <<>>
    /\ rc = -1
    /\ mpc = "dyn"
    /\ NoBZ /\ NoClip /\ NoMap /\ NoOverlay /\ NoBands /\ NoPlots

SpecScan == InitScan /\ [][NextLink]_vars

(* the perturbation indices of the files of the three roots that are       *)
(* regular files with a source name for q-point q                          *)
CandidateIndices(q) ==
    {Parse(PathInfo[p])[2] :
        p \in {x \in Paths : /\ \E r \in 1..Len(Roots) : x \in Listed(fs0, r)
                             /\ IsFile(fs0, x)
                             /\ Parse(PathInfo[x]) # None
                             /\ Parse(PathInfo[x])[1] = q}}

SelectedAsClaimed(q) ==
    IF CandidateIndices(q) = {} THEN hits[q] = None
    ELSE /\ hits[q] # None
         /\ hits[q][1] = IF 1 \in CandidateIndices(q) THEN 1
                         ELSE Min(CandidateIndices(q))

(* C26: when the scan of the three roots is over, the source recorded for  *)
(* a q-point has index 1 if a candidate for it has, else the smallest      *)
(* index among its candidates, in whatever order the files were met; a     *)
(* recorded source of index 1 is never replaced.                           *)
C26_SelectionByIndex ==
    [][\A q \in Qs :
          /\ (hits[q] # None /\ hits[q][1] = 1) => hits'[q] = hits[q]
          /\ (mpc' = "link" \/ (mpc' = "returned" /\ rc' \in {0, 2})) =>
                SelectedAsClaimed(q)']_vars

(* three candidates of indices 3, 2 and 1 lay in one root *)
C26_Witness ==
    /\ mpc = "link"
    /\ \E q \in Qs : /\ CandidateIndices(q) = {1, 2, 3}
                     /\ hits[q][1] = 1
    /\ \E q \in Qs : /\ CandidateIndices(q) = {4}
                     /\ hits[q][1] = 4

(***************************************************************************)
(* plot_phonon_dispersion.py: resolving the three input files, loading    *)
(* the dispersion, the optional labels and the optional DOS panel.        *)
(* A file is a pair <<kind, n>>: kind says what the file system and the   *)
(* parsers make of it, n is the number of rows (dispersion) or of         *)
(* high-symmetry points (q-path) a good file holds.                       *)
(***************************************************************************)

NoFile == <<"missing", 0>>
ADir == <<"dir", 0>>
Unreadable == <<"unreadable", 0>>       \* open() raises OSError
Malformed == <<"malformed", 0>>         \* the parser raises ValueError
Good(n) == <<"good", n>>
Unplottable == <<"unplottable", 0>>     \* a DOS table that loads but cannot be drawn

(* p.exists() and p.is_file() *)
PhIsFile(files, p) == files[p][1] \notin {"missing", "dir"}

(* the value of --freq, used as a path and then as PREFIX *)
FreqArg == "X"

(* the list guesses of resolve_inputs, for prefix X *)
FreqGuesses ==
    << "X_phband.freq.gp", "X_phband.freq", "X.freq.gp", "X.freq",
       "X_dispersion.freq.gp", "X_dispersion.freq",
       "X_phband.freq.gp.dat", "X_phband.freq.dat" >>

(* the list dos_guesses of resolve_inputs, for prefix X *)
DosGuesses == << "X_phdos", "X.phdos", "X_phdos.dat", "X.phdos.dat" >>

DefaultQpath == "qpath.in"

PhNames ==
    {FreqArg, "d.dat", "q.in", DefaultQpath}
    \cup {FreqGuesses[i] : i \in 1..Len(FreqGuesses)}
    \cup {DosGuesses[i] : i \in 1..Len(DosGuesses)}

FirstExisting(files, guesses) ==
    LET is == {i \in 1..Len(guesses) : PhIsFile(files, guesses[i])}
    IN  IF is = {} THEN None
        ELSE <<guesses[CHOOSE i \in is : \A j \in is : i <= j]>>

(* the "given and found, else None" of the DOS and q-path arguments *)
GivenPath(files, arg) ==
    IF PhIsFile(files, arg[1]) THEN arg ELSE None

(* resolve_inputs in which a --dos that is not found is an error *)
ResolveInputsDosFatal(args, files) ==
    LET concrete == PhIsFile(files, args.freq)
        found == FirstExisting(files, FreqGuesses)
    IN  IF ~concrete /\ found = None THEN Raise("FileNotFoundError")
        ELSE IF args.dos # None /\ ~PhIsFile(files, args.dos[1])
             THEN Raise("FileNotFoundError")
        ELSE Return([freq |-> IF concrete THEN <<args.freq>> ELSE found,
                     dos |-> IF args.dos # None THEN args.dos
                             ELSE IF ~concrete
                                  THEN FirstExisting(files, DosGuesses)
                                  ELSE None,
                     qpath |-> IF args.qpath # None
                               THEN GivenPath(files, args.qpath)
                               ELSE IF PhIsFile(files, DefaultQpath)
                                    THEN <<DefaultQpath>> ELSE None,
                     prefix |-> IF concrete THEN "" ELSE args.freq])

ResolveInputs(args, files) ==
    LET concrete == PhIsFile(files, args.freq)
        found == FirstExisting(files, FreqGuesses)
    IN  IF ~concrete /\ found = None THEN Raise("FileNotFoundError")
        ELSE Return([freq |-> IF concrete THEN <<args.freq>> ELSE found,
                     dos |-> IF args.dos # None
                             THEN GivenPath(files, args.dos)
                             ELSE IF ~concrete
                                  THEN FirstExisting(files, DosGuesses)
                                  ELSE None,
                     qpath |-> IF args.qpath # None
                               THEN GivenPath(files, args.qpath)
                               ELSE IF PhIsFile(files, DefaultQpath)
                                    THEN <<DefaultQpath>> ELSE None,
                     prefix |-> IF concrete THEN "" ELSE args.freq])

(* what open() and a parser make of a file: its n rows, or the exception *)
LoadTable(f) ==
    IF f[1] = "unreadable" THEN Raise("OSError")
    ELSE IF f[1] = "malformed" THEN Raise("ValueError")
    ELSE Return(f[2])

(* lines 448-457 of main: load_freq_gp, load_freq_raw or load_freq_table;  *)
(* the result is len(q_path)                                              *)
LoadFreq(files, path) == LoadTable(files[path])

LoadDos2col(files, path) == LoadTable(files[path])

(* Python's round() of the non-negative fraction num/den: half to even *)
RoundHalfEven(num, den) ==
    LET q == num \div den
        r == num % den
    IN  IF 2 * r < den THEN q
        ELSE IF 2 * r > den THEN q + 1
        ELSE IF q % 2 = 0 THEN q ELSE q + 1

(* the labels and tick indices of a q-path file that lists k points; a     *)
(* label is represented by the index of its line                         *)
TickIndices(k, n) ==
    IF k - 1 <= 0 THEN [i \in 1..k |-> i - 1]
    ELSE [i \in 1..k |-> RoundHalfEven((i - 1) * (n - 1), k - 1)]

ParseQpathLabels(files, path, n) ==
    LET r == LoadTable(files[path])
    IN  IF r.err # "none" THEN <<<<>>, <<>>>>
        ELSE <<[i \in 1..r.out |-> i], TickIndices(r.out, n)>>

(* the ticks both plot functions set: q_path[i] for i in tick_idx *)
Ticks(n, labels, idx) ==
    IF labels # <<>> /\ idx # <<>> /\ Len(labels) = Len(idx)
    THEN IF \A i \in 1..Len(idx) : idx[i] < n /\ idx[i] >= -n
         THEN Return(idx) ELSE Raise("IndexError")
    ELSE Return(<<>>)

PlotDispersionOnly(n, labels, idx) ==
    LET t == Ticks(n, labels, idx)
    IN  IF t.err # "none" THEN t
        ELSE Return([kind |-> "dispersion_only", ticks |-> t.out])

PlotDispersionWithDos(n, dos, labels, idx) ==
    LET t == Ticks(n, labels, idx)
    IN  IF t.err # "none" THEN t
        ELSE IF dos = "unplottable" THEN Raise("ValueError")
        ELSE Return([kind |-> "with_dos", ticks |-> t.out])

(* lines 469-512 of main *)
PlotEither(files, paths, n, labels, idx) ==
    IF paths.dos # None
    THEN LET d == LoadDos2col(files, paths.dos[1])
             w == IF d.err # "none" THEN d
                  ELSE PlotDispersionWithDos(n, files[paths.dos[1]][1],
                                             labels, idx)
         IN  IF w.err # "none" THEN PlotDispersionOnly(n, labels, idx)
             ELSE w
    ELSE PlotDispersionOnly(n, labels, idx)

PhArgs ==
    [freq : {FreqArg}, dos : {None, <<"d.dat">>}, qpath : {None, <<"q.in">>}]

PhOptions ==
    (FreqArg :> {NoFile, ADir, Malformed, Good(3)})
    @@ ("X_phband.freq.gp" :> {NoFile, Good(2)})
    @@ ("X.freq" :> {NoFile, Unreadable})
    @@ ("d.dat" :> {NoFile, Unreadable, Good(0)})
    @@ ("X_phdos" :> {NoFile, Malformed, Unplottable})
    @@ ("X.phdos" :> {NoFile, Good(0)})
    @@ ("q.in" :> {NoFile, ADir, Malformed, Good(3)})
    @@ (DefaultQpath :> {NoFile, Unreadable, Good(1), Good(4)})

RECURSIVE PhChoices(_)
PhChoices(ps) ==
    IF ps = {} THEN {[p \in PhNames |-> NoFile]}
    ELSE LET q == CHOOSE x \in ps : TRUE
         IN  {[c EXCEPT ![q] = e] : c \in PhChoices(ps \ {q}), e \in PhOptions[q]}

InitPhonon ==
    /\ phargs \in PhArgs
    /\ phfiles \in PhChoices(DOMAIN PhOptions)
    /\ phpaths = None /\ phdisp = None /\ phlabels = <<<<>>, <<>>>>
    /\ phplot = None /\ pherr = "none"
    /\ phpc = "resolve"
    /\ NoBZ /\ NoClip /\ NoMap /\ NoOverlay /\ NoLink /\ NoBands /\ NoPdos

PhononFrame ==
    UNCHANGED <<phargs, phfiles, bzvars, clipvars, mapvars, overlayvars,
                linkvars, bandvars, pdosvars>>

(* line 444 *)
CallResolveInputs ==
    /\ phpc = "resolve"
    /\ LET r == ResolveInputs(phargs, phfiles)
       IN  IF r.err # "none"
           THEN pherr' = r.err /\ phpc' = "raised" /\ UNCHANGED phpaths
           ELSE phpaths' = <<r.out>> /\ phpc' = "load" /\ UNCHANGED pherr
    /\ UNCHANGED <<phdisp, phlabels, phplot>>
    /\ PhononFrame

(* lines 447-457 *)
LoadDispersion ==
    /\ phpc = "load"
    /\ LET r == LoadFreq(phfiles, phpaths[1].freq[1])
       IN  IF r.err # "none"
           THEN pherr' = r.err /\ phpc' = "raised" /\ UNCHANGED phdisp
           ELSE phdisp' = <<r.out>> /\ phpc' = "labels" /\ UNCHANGED pherr
    /\ UNCHANGED <<phpaths, phlabels, phplot>>
    /\ PhononFrame

(* lines 459-463 *)
ReadLabels ==
    /\ phpc = "labels"
    /\ phlabels' = IF phpaths[1].qpath # None
                   THEN ParseQpathLabels(phfiles, phpaths[1].qpath[1], phdisp[1])
                   ELSE <<<<>>, <<>>>>
    /\ phpc' = "plot"
    /\ UNCHANGED <<phpaths, phdisp, phplot, pherr>>
    /\ PhononFrame

(* lines 468-512 *)
PlotPhonons ==
    /\ phpc = "plot"
    /\ LET r == PlotEither(phfiles, phpaths[1], phdisp[1],
                           phlabels[1], phlabels[2])
       IN  IF r.err # "none"
           THEN pherr' = r.err /\ phpc' = "raised" /\ UNCHANGED phplot
           ELSE phplot' = <<r.out>> /\ phpc' = "done" /\ UNCHANGED pherr
    /\ UNCHANGED <<phpaths, phdisp, phlabels>>
    /\ PhononFrame

NextPhonon == CallResolveInputs \/ LoadDispersion \/ ReadLabels \/ PlotPhonons

SpecPhonon == InitPhonon /\ [][NextPhonon]_vars

(* ---- properties of plot_phonon_dispersion ---- *)

(* no dispersion file can be found: neither the path nor any guess *)
Unresolvable ==
    /\ ~PhIsFile(phfiles, FreqArg)
    /\ \A i \in 1..Len(FreqGuesses) : ~PhIsFile(phfiles, FreqGuesses[i])

(* the state of the file the DOS argument, or the first DOS guess, names *)
DosFileKinds ==
    IF phargs.dos # None THEN {phfiles[phargs.dos[1]][1]}
    ELSE {phfiles[DosGuesses[i]][1] : i \in 1..Len(DosGuesses)}

QpathFileKind ==
    IF phargs.qpath # None THEN phfiles[phargs.qpath[1]][1]
    ELSE phfiles[DefaultQpath][1]

(* the three fail-soft parts of the claim *)
PhFailSoft ==
    /\ phpaths # None =>
          /\ DosFileKinds \subseteq {"missing", "dir"} => phpaths[1].dos = None
          /\ QpathFileKind \in {"missing", "dir"} => phpaths[1].qpath = None
    /\ phpc \in {"plot", "done"} =>
          (QpathFileKind # "good" => phlabels = <<<<>>, <<>>>>)
    /\ phpc = "done" =>
          /\ phplot # None
          /\ phpaths[1].dos # None
                => (phplot[1].kind = "with_dos"
                       <=> phfiles[phpaths[1].dos[1]][1] = "good")
          /\ phpaths[1].dos = None => phplot[1].kind = "dispersion_only"
    /\ ~Unresolvable /\ phpc # "resolve" /\ phpc # "raised" => phpaths # None
    /\ (phpc = "raised" /\ pherr \notin {"FileNotFoundError"}) =>
          phfiles[phpaths[1].freq[1]][1] # "good"

PdosNames ==
    << "s.pdos.projwfc_up",
       "s.pdos_atm#1(Ti)_wfc#1(s)",
       "s.pdos_atm#1(Ti)_wfc#1(s)_down",
       "s.pdos_atm#1(Ti)_wfc#1(s)_up",
       "s.pdos_tot",
       "s.pdos_tot_UP",
       "s.pdos_tot_down",
       "s.pdos_tot_up",
       "scf.out" >>

PdosNameInfo ==
    ("s.pdos.projwfc_up" :> [seed |-> "s", stem |-> ".pdos.projwfc", tail |-> "_up"])
    @@ ("s.pdos_atm#1(Ti)_wfc#1(s)" :> [seed |-> "s", stem |-> ".pdos_atm#N(A)_wfc#M(l)", tail |-> ""])
    @@ ("s.pdos_atm#1(Ti)_wfc#1(s)_down" :> [seed |-> "s", stem |-> ".pdos_atm#N(A)_wfc#M(l)", tail |-> "_down"])
    @@ ("s.pdos_atm#1(Ti)_wfc#1(s)_up" :> [seed |-> "s", stem |-> ".pdos_atm#N(A)_wfc#M(l)", tail |-> "_up"])
    @@ ("s.pdos_tot" :> [seed |-> "s", stem |-> ".pdos_tot", tail |-> ""])
    @@ ("s.pdos_tot_UP" :> [seed |-> "s", stem |-> ".pdos_tot", tail |-> "_UP"])
    @@ ("s.pdos_tot_down" :> [seed |-> "s", stem |-> ".pdos_tot", tail |-> "_down"])
    @@ ("s.pdos_tot_up" :> [seed |-> "s", stem |-> ".pdos_tot", tail |-> "_up"])
    @@ ("scf.out" :> [seed |-> "scf", stem |-> ".out", tail |-> ""])

(* the optional group (_up|_down) of both expressions: its value, or None *)
SpinOfTail(tail) ==
    IF tail = "_up" THEN <<"up">>
    ELSE IF tail = "_down" THEN <<"down">>
    ELSE None

(* classify_pdos_file: the info dict, wrapped, or None *)
ClassifyPdosFile(fname) ==
    LET i == PdosNameInfo[fname]
    IN  IF i.stem = ".pdos_tot" /\ i.tail \in {"", "_up", "_down"}
        THEN <<[filename |-> fname, seedname |-> i.seed, kind |-> "tot",
                spin |-> SpinOfTail(i.tail)]>>
        ELSE IF i.stem = ".pdos_atm#N(A)_wfc#M(l)" /\ i.tail \in {"", "_up", "_down"}
        THEN <<[filename |-> fname, seedname |-> i.seed, kind |-> "proj",
                spin |-> SpinOfTail(i.tail)]>>
        ELSE None

(* a file: absent, unparsable, a table E | columns, or QE output with the  *)
(* Fermi energies its lines print                                          *)
NoPdosFile == [kind |-> "absent", E |-> <<>>, cols |-> <<>>, efs |-> <<>>]
BadPdosFile == [kind |-> "bad", E |-> <<>>, cols |-> <<>>, efs |-> <<>>]
PdosTable(e, c) == [kind |-> "table", E |-> e, cols |-> c, efs |-> <<>>]
QeOut(efs) == [kind |-> "out", E |-> <<>>, cols |-> <<>>, efs |-> efs]

(* parse_pdos_file *)
ParsePdosFile(files, fname) ==
    IF files[fname].kind = "table"
    THEN Return([E |-> files[fname].E, cols |-> files[fname].cols])
    ELSE Raise("ValueError")

(* detect_fermi_energy_from_out: the last value of the *.out files *)
DetectFermiEnergyFromOut(files) ==
    IF files["scf.out"].kind = "out" /\ files["scf.out"].efs # <<>>
    THEN <<files["scf.out"].efs[Len(files["scf.out"].efs)]>>
    ELSE None

SeqMin(e) == CHOOSE x \in {e[i] : i \in 1..Len(e)} : \A j \in 1..Len(e) : x <= e[j]
SeqMax(e) == CHOOSE x \in {e[i] : i \in 1..Len(e)} : \A j \in 1..Len(e) : x >= e[j]

(* should_apply_fermi_shift, for an integer grid: the ratio test           *)
(* max/min < 3.0 without the division                                     *)
ShouldApplyFermiShift(e) ==
    LET lo == SeqMin(e)
        hi == SeqMax(e)
        left == -lo
        right == hi
    IN  IF lo < 0 /\ 0 < hi
           /\ (IF left > right THEN left < 3 * right ELSE right < 3 * left)
        THEN FALSE
        ELSE TRUE

(* lines 281-293: the sorted list of the classified files *)
RECURSIVE EntriesFrom(_, _)
EntriesFrom(files, i) ==
    IF i > Len(PdosNames) THEN <<>>
    ELSE (IF files[PdosNames[i]].kind # "absent"
          THEN ClassifyPdosFile(PdosNames[i]) ELSE <<>>)
         \o EntriesFrom(files, i + 1)

HasSpin(entries) ==
    \E i \in 1..Len(entries) : entries[i].spin \in {<<"up">>, <<"down">>}

OfKind(entries, k) == SelectSeq(entries, LAMBDA e : e.kind = k)

(* lines 338-344: total entries, then projected ones *)
PlottedEntries(entries, has_spin) ==
    LET all == OfKind(entries, "tot") \o OfKind(entries, "proj")
    IN  IF has_spin
        THEN SelectSeq(all, LAMBDA e : e.spin \in {<<"up">>, <<"down">>})
        ELSE all

Negated(y) == [i \in 1..Len(y) |-> -y[i]]
ShiftedBy(e, d) == [i \in 1..Len(e) |-> e[i] - d]

(* the body of both plotting loops without the minus sign of spin down *)
CurveUnsigned(e, data, ef, shift, has_spin) ==
    [filename |-> e.filename,
     x |-> IF ef # None /\ shift THEN ShiftedBy(data.E, ef[1]) ELSE data.E,
     y |-> data.cols[1],
     arrow |-> IF has_spin THEN e.spin ELSE None]

(* the body of both plotting loops: what plt.plot is given *)
Curve(e, data, ef, shift, has_spin) ==
    [filename |-> e.filename,
     x |-> IF ef # None /\ shift THEN ShiftedBy(data.E, ef[1]) ELSE data.E,
     y |-> IF has_spin /\ e.spin = <<"down">>
           THEN Negated(data.cols[1]) ELSE data.cols[1],
     arrow |-> IF has_spin THEN e.spin ELSE None]

PdosOptions ==
    ("s.pdos.projwfc_up" :> {NoPdosFile, PdosTable(<<0, 1>>, <<<<4, 4>>>>)})
    @@ ("s.pdos_atm#1(Ti)_wfc#1(s)" :>
            {NoPdosFile, BadPdosFile, PdosTable(<<0, 1>>, <<<<1, 2>>, <<3, 3>>>>)})
    @@ ("s.pdos_atm#1(Ti)_wfc#1(s)_down" :>
            {NoPdosFile, BadPdosFile, PdosTable(<<-2, 1>>, <<<<1, 0>>, <<0, 1>>>>)})
    @@ ("s.pdos_atm#1(Ti)_wfc#1(s)_up" :>
            {NoPdosFile, PdosTable(<<-2, 1>>, <<<<2, 1>>>>)})
    @@ ("s.pdos_tot" :>
            {NoPdosFile, BadPdosFile, PdosTable(<<-1, 4>>, <<<<3, 1>>>>)})
    @@ ("s.pdos_tot_UP" :> {NoPdosFile, PdosTable(<<0, 1>>, <<<<5, 5>>>>)})
    @@ ("s.pdos_tot_down" :>
            {NoPdosFile, BadPdosFile, PdosTable(<<-2, 1>>, <<<<2, 3>>>>)})
    @@ ("s.pdos_tot_up" :>
            {NoPdosFile, PdosTable(<<-2, 1>>, <<<<-1, 2>>>>)})
    @@ ("scf.out" :> {NoPdosFile, QeOut(<<>>), QeOut(<<3, 1>>)})

RECURSIVE PdosChoices(_)
PdosChoices(ps) ==
    IF ps = {} THEN {[p \in DOMAIN PdosOptions |-> NoPdosFile]}
    ELSE LET q == CHOOSE x \in ps : TRUE
         IN  {[c EXCEPT ![q] = e] : c \in PdosChoices(ps \ {q}), e \in PdosOptions[q]}

InitPdos ==
    /\ dfiles \in PdosChoices(DOMAIN PdosOptions)
    /\ dfermi = None /\ dentries = <<>> /\ dspin = FALSE /\ dshift = FALSE
    /\ dtodo = <<>> /\ dcurves = <<>>
    /\ dpc = "collect"
    /\ NoBZ /\ NoClip /\ NoMap /\ NoOverlay /\ NoLink /\ NoBands /\ NoPhonon

PdosFrame ==
    UNCHANGED <<dfiles, bzvars, clipvars, mapvars, overlayvars, linkvars,
                bandvars, phononvars>>

(* lines 281-308 *)
CollectEntries ==
    /\ dpc = "collect"
    /\ LET entries == EntriesFrom(dfiles, 1)
       IN  IF entries = <<>>
           THEN dpc' = "returned" /\ UNCHANGED <<dentries, dspin>>
           ELSE /\ dentries' = entries
                /\ dspin' = HasSpin(entries)
                /\ dpc' = "fermi"
    /\ UNCHANGED <<dfermi, dshift, dtodo, dcurves>>
    /\ PdosFrame

(* lines 310-344 *)
DecideShift ==
    /\ dpc = "fermi"
    /\ LET ef == DetectFermiEnergyFromOut(dfiles)
           rep == ParsePdosFile(dfiles, dentries[1].filename)
       IN  /\ dfermi' = ef
           /\ dshift' = IF ef = None THEN FALSE
                        ELSE IF rep.err # "none" THEN TRUE
                        ELSE ShouldApplyFermiShift(rep.out.E)
    /\ dtodo' = PlottedEntries(dentries, dspin)
    /\ dpc' = "plot"
    /\ UNCHANGED <<dentries, dspin, dcurves>>
    /\ PdosFrame

(* one pass of a plotting loop, for the entry e at the head of the work    *)
PlotEntry(e) ==
    LET r == ParsePdosFile(dfiles, e.filename)
    IN  /\ dcurves' = IF r.err # "none" THEN dcurves
                      ELSE Append(dcurves, Curve(e, r.out, dfermi, dshift, dspin))
        /\ dtodo' = Tail(dtodo)
        /\ UNCHANGED <<dfermi, dentries, dspin, dshift, dpc>>
        /\ PdosFrame

(* lines 367-394 *)
PlotTotal ==
    /\ dpc = "plot" /\ dtodo # <<>> /\ Head(dtodo).kind = "tot"
    /\ PlotEntry(Head(dtodo))

(* lines 397-423 *)
PlotProjected ==
    /\ dpc = "plot" /\ dtodo # <<>> /\ Head(dtodo).kind = "proj"
    /\ PlotEntry(Head(dtodo))

(* lines 425-433 *)
SaveFigure ==
    /\ dpc = "plot" /\ dtodo = <<>>
    /\ dpc' = "saved"
    /\ UNCHANGED <<dfermi, dentries, dspin, dshift, dtodo, dcurves>>
    /\ PdosFrame

NextPdos ==
    CollectEntries \/ DecideShift \/ PlotTotal \/ PlotProjected \/ SaveFigure

SpecPdos == InitPdos /\ [][NextPdos]_vars

(* ---- properties of pdosPlot ---- *)

(* the files of the directory whose names have one of the two PDOS forms *)
ClassifiedNames ==
    {n \in DOMAIN dfiles :
        /\ dfiles[n].kind # "absent"
        /\ PdosNameInfo[n].stem \in {".pdos_tot", ".pdos_atm#N(A)_wfc#M(l)"}
        /\ PdosNameInfo[n].tail \in {"", "_up", "_down"}}

SpinSuffixed(n) == PdosNameInfo[n].tail \in {"_up", "_down"}

SpinPolarized == \E n \in ClassifiedNames : SpinSuffixed(n)

(* the classified files a run has to draw *)
NamesToPlot ==
    {n \in ClassifiedNames :
        dfiles[n].kind = "table" /\ (SpinPolarized => SpinSuffixed(n))}

(* C22: without a spin-suffixed classified file every curve is the first   *)
(* DOS column unchanged; with one, only spin-suffixed entries are plotted, *)
(* spin-down curves are minus the column and spin-up curves the column.    *)
C22_SpinSigns ==
    /\ \A i \in 1..Len(dcurves) :
          LET c == dcurves[i]
              dos == dfiles[c.filename].cols[1]
          IN  /\ c.filename \in NamesToPlot
              /\ ~SpinPolarized => c.y = dos
              /\ SpinPolarized =>
                    /\ PdosNameInfo[c.filename].tail = "_down" => c.y = Negated(dos)
                    /\ PdosNameInfo[c.filename].tail = "_up" => c.y = dos
    /\ dpc = "saved" =>
          /\ {dcurves[i].filename : i \in 1..Len(dcurves)} = NamesToPlot
          /\ Len(dcurves) = Cardinality(NamesToPlot)

(* a spin-polarized run that drew a spin-down curve with the sign changed, *)
(* a spin-up curve, and left out a readable file without suffix            *)
C22_Witness ==
    /\ dpc = "saved"
    /\ \E i \in 1..Len(dcurves) :
          /\ dcurves[i].filename = "s.pdos_tot_down"
          /\ dcurves[i].y = <<-2, -3>>
    /\ \E i \in 1..Len(dcurves) :
          /\ dcurves[i].filename = "s.pdos_atm#1(Ti)_wfc#1(s)_up"
          /\ dcurves[i].y = <<2, 1>>
    /\ dfiles["s.pdos_tot"].kind = "table"
    /\ \A i \in 1..Len(dcurves) : dcurves[i].filename # "s.pdos_tot"

====
